---- MODULE Spec2Model ----
(***************************************************************************)
(* Content-based movie recommendation (mainRSystem.py): tokenize,          *)
(* featurize (TF-IDF), train_test_split, cosine_sim and make_predictions.  *)
(*                                                                         *)
(* Representation                                                          *)
(*   - a string is a sequence of one-character strings;                    *)
(*   - a DataFrame is a sequence of rows (records), its columns added by   *)
(*     tokenize / featurize are the variables tokens and features;         *)
(*   - a Python float is an exact real number.  Rationals are pairs        *)
(*     <<n, d>> in lowest terms; a real is a finite sum of rational        *)
(*     multiples of square roots of squarefree integers, kept as a         *)
(*     function from the squarefree radicand to its non-zero coefficient   *)
(*     (the empty function is 0); a float is a quotient of two reals, or   *)
(*     the IEEE value NaN;                                                 *)
(*   - math.log10 is the one rounded function: its value is held in        *)
(*     tenths, additive over the prime factors of its argument.            *)
(***************************************************************************)
EXTENDS Integers, Sequences, FiniteSets, TLC

VARIABLES pc, movies, tokens, vocab, dfdict, features,
          ratings, ratings_train, ratings_test, predictions, sim, fault

vars == <<pc, movies, tokens, vocab, dfdict, features,
          ratings, ratings_train, ratings_test, predictions, sim, fault>>

\* A variable that holds nothing yet (an unbound name, a missing column).
None == "None"

----------------------------------------------------------------------------
(* Bounds of the model *)

\* Largest number of movies in a catalog.
MaxMovies == 3
\* Largest number of rows of the ratings log handed to train_test_split.
MaxRows == 2500
\* Largest number of rating rows (training and test together) handed to
\* make_predictions.
MaxRatings == 3

\* The stride of the hold-out slice, range(len(ratings))[::1000].
Step == 1000

----------------------------------------------------------------------------
(* Characters and strings *)

UpperCase == <<"A","B","C","D","E","F","G","H","I","J","K","L","M",
               "N","O","P","Q","R","S","T","U","V","W","X","Y","Z">>

LowerCase == <<"a","b","c","d","e","f","g","h","i","j","k","l","m",
               "n","o","p","q","r","s","t","u","v","w","x","y","z">>

\* The characters of the model in ascending code point order.
CodeOrder == <<" ", "(", ")", "-">> \o UpperCase \o <<"_">> \o LowerCase \o <<"|">>

Range(f) == {f[i] : i \in DOMAIN f}

\* The rank of a character in code point order (Python compares strings
\* code point by code point).
Ord(c) == CHOOSE i \in DOMAIN CodeOrder : CodeOrder[i] = c

\* str.lower() on one character.
LowerChar(c) ==
    IF c \in Range(UpperCase)
    THEN LowerCase[CHOOSE i \in DOMAIN UpperCase : UpperCase[i] = c]
    ELSE c

\* str.lower()
Lower(s) == [i \in DOMAIN s |-> LowerChar(s[i])]

\* A character of the class [\w\-].
IsTokenChar(c) == c \in Range(UpperCase) \cup Range(LowerCase) \cup {"_", "-"}

\* Python's s < t on strings.
RECURSIVE StrLess(_, _)
StrLess(s, t) ==
    IF t = <<>> THEN FALSE
    ELSE IF s = <<>> THEN TRUE
    ELSE IF s[1] # t[1] THEN Ord(s[1]) < Ord(t[1])
    ELSE StrLess(Tail(s), Tail(t))

\* "t in s" / a search for a pattern without metacharacters: t occurs in s.
Contains(s, t) ==
    \E i \in 1..(Len(s) - Len(t) + 1) : SubSeq(s, i, i + Len(t) - 1) = t

\* The end of the maximal run of token characters of s that starts at i.
RECURSIVE RunEnd(_, _)
RunEnd(s, i) ==
    IF i < Len(s) /\ IsTokenChar(s[i + 1]) THEN RunEnd(s, i + 1) ELSE i

\* re.findall('[\w\-]+', s) scanning from position i.
RECURSIVE FindAll(_, _)
FindAll(s, i) ==
    IF i > Len(s) THEN <<>>
    ELSE IF IsTokenChar(s[i])
         THEN <<SubSeq(s, i, RunEnd(s, i))>> \o FindAll(s, RunEnd(s, i) + 1)
         ELSE FindAll(s, i + 1)

\* tokenize_string: the maximal runs of [\w\-] of the lowercased string.
tokenize_string(my_string) == FindAll(Lower(my_string), 1)

----------------------------------------------------------------------------
(* Exact arithmetic standing for Python's float arithmetic *)

Abs(n) == IF n < 0 THEN -n ELSE n

RECURSIVE Gcd(_, _)
Gcd(a, b) == IF b = 0 THEN a ELSE Gcd(b, a % b)

Max(S) == CHOOSE x \in S : \A y \in S : y <= x

\* The rational n / d (d # 0) in lowest terms with a positive denominator.
Q(n, d) ==
    LET g == Gcd(Abs(n), Abs(d))
        s == IF d < 0 THEN -1 ELSE 1
    IN  <<(s * n) \div g, (s * d) \div g>>

QZero == <<0, 1>>
QAdd(a, b) == Q(a[1] * b[2] + b[1] * a[2], a[2] * b[2])
QNeg(a) == <<-a[1], a[2]>>
QMul(a, b) == Q(a[1] * b[1], a[2] * b[2])
QInv(a) == Q(a[2], a[1])
QLess(a, b) == a[1] * b[2] < b[1] * a[2]

\* floor(sqrt(n)) for n >= 0.
RECURSIVE ISqrt(_)
ISqrt(n) ==
    IF n < 2 THEN n
    ELSE LET r == 2 * ISqrt(n \div 4)
         IN  IF (r + 1) * (r + 1) <= n THEN r + 1 ELSE r

\* The largest s with s * s dividing n (n >= 1).
SquarePart(n) == Max({s \in 1..ISqrt(n) : n % (s * s) = 0})

\* Reals: a function from squarefree radicands m to non-zero rational
\* coefficients c, standing for the sum of c * sqrt(m).
RZero == [m \in {} |-> QZero]
RFromQ(q) == IF q[1] = 0 THEN RZero ELSE (1 :> q)
ROne == RFromQ(<<1, 1>>)
RCoef(x, m) == IF m \in DOMAIN x THEN x[m] ELSE QZero

\* The sum of x and y over the radicands in D; terms that cancel are dropped.
RECURSIVE RAddOver(_, _, _)
RAddOver(x, y, D) ==
    IF D = {} THEN RZero
    ELSE LET m == CHOOSE m \in D : TRUE
             c == QAdd(RCoef(x, m), RCoef(y, m))
             rest == RAddOver(x, y, D \ {m})
         IN  IF c = QZero THEN rest ELSE (m :> c) @@ rest

RAdd(x, y) ==
    IF DOMAIN x = {} THEN y
    ELSE IF DOMAIN y = {} THEN x
    ELSE RAddOver(x, y, (DOMAIN x) \cup (DOMAIN y))

\* c * sqrt(m) times d * sqrt(n), m and n squarefree:
\* sqrt(m) * sqrt(n) = gcd(m, n) * sqrt(m * n / gcd(m, n)^2).
RTermMul(m, c, n, d) ==
    LET g == Gcd(m, n)
    IN  ((m \div g) * (n \div g)) :> QMul(QMul(c, d), <<g, 1>>)

\* The sum of the products of the terms of x and y named by the pairs in P.
RECURSIVE RMulOver(_, _, _)
RMulOver(x, y, P) ==
    IF P = {} THEN RZero
    ELSE LET p == CHOOSE p \in P : TRUE
         IN  RAdd(RTermMul(p[1], x[p[1]], p[2], y[p[2]]),
                  RMulOver(x, y, P \ {p}))

RMul(x, y) ==
    IF x = ROne THEN y
    ELSE IF y = ROne THEN x
    ELSE RMulOver(x, y, (DOMAIN x) \X (DOMAIN y))

\* The non-negative square root of the rational q = p / d >= 0:
\* sqrt(p / d) = sqrt(p * d) / d = (s / d) * sqrt(m) where p * d = s^2 * m.
RSqrt(q) ==
    IF q[1] = 0 THEN RZero
    ELSE LET n == q[1] * q[2]
             s == SquarePart(n)
         IN  (n \div (s * s)) :> Q(s, q[2])

\* 1 / (c * sqrt(m)) = (1 / (c * m)) * sqrt(m), for a real x of one term.
RInvTerm(x) ==
    LET m == CHOOSE m \in DOMAIN x : TRUE
    IN  m :> QInv(QMul(x[m], <<m, 1>>))

\* The least common multiple of the denominators of x's coefficients.
RECURSIVE DenLcm(_, _)
DenLcm(x, D) ==
    IF D = {} THEN 1
    ELSE LET m == CHOOSE m \in D : TRUE
             r == DenLcm(x, D \ {m})
         IN  (r \div Gcd(r, x[m][2])) * x[m][2]

RECURSIVE SumOver(_, _)
SumOver(f, D) ==
    IF D = {} THEN 0
    ELSE LET m == CHOOSE m \in D : TRUE IN f[m] + SumOver(f, D \ {m})

\* The largest magnitude the scaled radicands may take in RSignAt.
IntLimit == 1024 * 1024 * 1024

\* The sign of a real with terms of both signs, from floor square roots of
\* its terms scaled by s: with K[m] = coefficient * common denominator, the
\* value lies between lo and hi, both computed in integers.
RECURSIVE RSignAt(_, _)
RSignAt(x, s) ==
    LET L == DenLcm(x, DOMAIN x)
        K == [m \in DOMAIN x |-> x[m][1] * (L \div x[m][2])]
        f == [m \in DOMAIN x |-> ISqrt(K[m] * K[m] * m * s * s)]
        lo == [m \in DOMAIN x |-> IF K[m] > 0 THEN f[m] ELSE -(f[m] + 1)]
        hi == [m \in DOMAIN x |-> IF K[m] > 0 THEN f[m] + 1 ELSE -f[m]]
        l == SumOver(lo, DOMAIN x)
        h == SumOver(hi, DOMAIN x)
        big == Max({K[m] * K[m] * m : m \in DOMAIN x})
    IN  IF l >= 0 THEN 1
        ELSE IF h <= 0 THEN -1
        ELSE IF big * s * s * 16 <= IntLimit THEN RSignAt(x, 4 * s)
        ELSE IF l + h >= 0 THEN 1 ELSE -1

\* The sign of a real: -1, 0 or 1.
RSign(x) ==
    IF DOMAIN x = {} THEN 0
    ELSE IF \A m \in DOMAIN x : x[m][1] > 0 THEN 1
    ELSE IF \A m \in DOMAIN x : x[m][1] < 0 THEN -1
    ELSE RSignAt(x, 1)

\* Floats: NaN, or the quotient num / den of two reals, den # 0.  A quotient
\* whose denominator has one term is kept with denominator 1.
FNaN == [nan |-> TRUE, num |-> RZero, den |-> ROne]

FQuot(n, d) ==
    IF DOMAIN d = {} THEN FNaN
    ELSE IF Cardinality(DOMAIN d) = 1
         THEN [nan |-> FALSE, num |-> RMul(n, RInvTerm(d)), den |-> ROne]
         ELSE [nan |-> FALSE, num |-> n, den |-> d]

FromQ(q) == [nan |-> FALSE, num |-> RFromQ(q), den |-> ROne]
FromInt(n) == FromQ(<<n, 1>>)
FZero == FromInt(0)

\* x + y
FAdd(x, y) ==
    IF x.nan \/ y.nan THEN FNaN
    ELSE IF x.den = y.den
         THEN [nan |-> FALSE, num |-> RAdd(x.num, y.num), den |-> x.den]
         ELSE FQuot(RAdd(RMul(x.num, y.den), RMul(y.num, x.den)),
                    RMul(x.den, y.den))

\* x * y
FMul(x, y) ==
    IF x.nan \/ y.nan THEN FNaN
    ELSE FQuot(RMul(x.num, y.num), RMul(x.den, y.den))

\* x / y for numpy floats: 0.0 / 0.0 is nan (a warning, no exception).  A
\* non-zero x over 0.0 would be inf; no caller divides so, because every
\* numerator here is zero whenever its denominator is.
FDiv(x, y) ==
    IF x.nan \/ y.nan THEN FNaN
    ELSE FQuot(RMul(x.num, y.den), RMul(x.den, y.num))

\* The sign of a float that is not NaN.
FSign(x) == RSign(x.num) * RSign(x.den)

\* x > 0.0: False for NaN.
FPositive(x) == ~x.nan /\ FSign(x) = 1

\* math.sqrt of a float holding a rational q >= 0 (a sum of squares).
FSqrt(x) ==
    [nan |-> FALSE, num |-> RSqrt(RCoef(x.num, 1)), den |-> ROne]

\* log10 of a prime, in tenths: 0.301, 0.477, 0.699, 0.845.
PrimeLog == [p \in {2, 3, 5, 7} |-> CASE p = 2 -> 3 [] p = 3 -> 5
                                          [] p = 5 -> 7 [] p = 7 -> 8]

\* log10 of the integer n >= 1 in tenths, additive over its prime factors.
RECURSIVE LogInt(_)
LogInt(n) ==
    IF n = 1 THEN 0
    ELSE LET p == CHOOSE p \in DOMAIN PrimeLog :
                     n % p = 0 /\ \A r \in DOMAIN PrimeLog : n % r = 0 => p <= r
         IN  PrimeLog[p] + LogInt(n \div p)

\* math.log10 of a float holding a positive rational.
log10(x) ==
    LET q == RCoef(x.num, 1)
    IN  FromQ(Q(LogInt(q[1]) - LogInt(q[2]), 10))

----------------------------------------------------------------------------
(* tokenize and featurize *)

\* tokenize: the column 'tokens', one token list per movie.
tokenize(mv) == [i \in DOMAIN mv |-> tokenize_string(mv[i].genres)]

\* The loop of lines 87-89: every token of every movie, in order.
RECURSIVE token_list(_)
token_list(tk) ==
    IF tk = <<>> THEN <<>> ELSE tk[1] \o token_list(Tail(tk))

\* Mutant of sorted: descending order.
RECURSIVE sortedDescending(_)
sortedDescending(S) ==
    IF S = {} THEN <<>>
    ELSE LET m == CHOOSE m \in S : \A t \in S \ {m} : StrLess(t, m)
         IN  <<m>> \o sortedDescending(S \ {m})

\* sorted(S) for a set of strings.
RECURSIVE sorted(_)
sorted(S) ==
    IF S = {} THEN <<>>
    ELSE LET m == CHOOSE m \in S : \A t \in S \ {m} : StrLess(m, t)
         IN  <<m>> \o sorted(S \ {m})

\* vocab = {k: v for v, k in enumerate(sorted(set(token_list)))}
BuildVocab(tk) ==
    LET final_token_list == sorted(Range(token_list(tk)))
    IN  [t \in Range(final_token_list) |->
            (CHOOSE i \in DOMAIN final_token_list : final_token_list[i] = t) - 1]

\* Mutant of DocFreq: the genre strings are not lowercased.
DocFreqCaseSensitive(mv, term) ==
    Cardinality({i \in DOMAIN mv : Contains(mv[i].genres, term)})

\* movies.genres.str.lower().str.contains(term).sum()
DocFreq(mv, term) ==
    Cardinality({i \in DOMAIN mv : Contains(Lower(mv[i].genres), term)})

\* dfdict[term] for every term of the vocabulary.
BuildDf(mv, vc) == [t \in DOMAIN vc |-> DocFreq(mv, t)]

\* row.count(term)
Count(row, term) == Cardinality({i \in DOMAIN row : row[i] = term})

\* Counter(row).most_common(1)[0][1], for a row with at least one token.
MostCommonCount(row) == Max({Count(row, t) : t \in Range(row)})

\* Mutant of TfIdf: a smoothed inverse document frequency, log10(1 + N / df).
TfIdfSmoothed(tf, max_k_tf, N, df) ==
    FMul(FDiv(FromInt(tf), FromInt(max_k_tf)),
         log10(FAdd(FromInt(1), FDiv(FromInt(N), FromInt(df)))))

\* tfidf = tf / max_k_tf * math.log10(N / dfdict[term])
TfIdf(tf, max_k_tf, N, df) ==
    FMul(FDiv(FromInt(tf), FromInt(max_k_tf)),
         log10(FDiv(FromInt(N), FromInt(df))))

\* csr_matrix((data, (rows, column)), shape=(1, len(vocab))): the stored
\* entries of one movie, by column, zero weights included.
FeatureRow(row, vc, df, N) ==
    [shape |-> Cardinality(DOMAIN vc),
     data  |-> [c \in {vc[t] : t \in Range(row)} |->
                   LET term == CHOOSE t \in Range(row) : vc[t] = c
                   IN  TfIdf(Count(row, term), MostCommonCount(row), N, df[term])]]

\* What stops the loop of lines 98-110 at one movie: most_common(1)[0] on
\* an empty token list, or N / 0.
RowFault(row, df) ==
    IF row = <<>> THEN "IndexError"
    ELSE IF \E t \in Range(row) : df[t] = 0 THEN "ZeroDivisionError"
    ELSE None

\* The exception featurize ends with (that of the first movie that raises
\* one), or None.
FeaturizeFault(tk, df) ==
    IF \A i \in DOMAIN tk : RowFault(tk[i], df) = None THEN None
    ELSE LET i == CHOOSE i \in DOMAIN tk :
                     /\ RowFault(tk[i], df) # None
                     /\ \A j \in 1..(i - 1) : RowFault(tk[j], df) = None
         IN  RowFault(tk[i], df)

\* v[0, i]: the stored weight at column i, 0 where nothing is stored.
Get(v, i) == IF i \in DOMAIN v.data THEN v.data[i] ELSE FZero

----------------------------------------------------------------------------
(* train_test_split *)

\* sorted(S) for a set S of positions below n.
SortedPositions(S, n) ==
    SelectSeq([i \in 1..n |-> i - 1], LAMBDA p : p \in S)

\* set(range(len(ratings))[::1000])
TestPositions(n) == {p \in 0..(n - 1) : p % Step = 0}

\* Mutant of TrainPositions: the test positions are not taken out.
TrainPositionsKeepTest(n) == 0..(n - 1)

\* set(range(len(ratings))) - test
TrainPositions(n) == (0..(n - 1)) \ TestPositions(n)

\* ratings.iloc[positions]
ILoc(rt, positions) == [k \in DOMAIN positions |-> rt[positions[k] + 1]]

----------------------------------------------------------------------------
(* cosine_sim *)

\* valueA: the sum of i * i over the stored entries a.data.
RECURSIVE SumSquares(_, _)
SumSquares(v, C) ==
    IF C = {} THEN FZero
    ELSE LET c == CHOOSE c \in C : TRUE
         IN  FAdd(FMul(v.data[c], v.data[c]), SumSquares(v, C \ {c}))

\* The loop of lines 151-156: b[0, i] * a[0, i] summed over i = 0 .. size - 1.
RECURSIVE DotUpTo(_, _, _)
DotUpTo(a, b, size) ==
    IF size <= 0 THEN FZero
    ELSE FAdd(DotUpTo(a, b, size - 1),
              FMul(Get(b, size - 1), Get(a, size - 1)))

\* Mutant of Dot: the loop stops one dimension early.
DotSkipLast(a, b) == DotUpTo(a, b, a.shape - 1)

\* The dot product over every dimension of a.
Dot(a, b) == DotUpTo(a, b, a.shape)

\* value / (normA * normB).  Every vector featurize builds has shape >= 1,
\* so value is a numpy float and a zero norm gives nan, not an exception.
cosine_sim(a, b) ==
    LET normA == FSqrt(SumSquares(a, DOMAIN a.data))
        normB == FSqrt(SumSquares(b, DOMAIN b.data))
    IN  FDiv(Dot(a, b), FMul(normA, normB))

----------------------------------------------------------------------------
(* make_predictions *)

\* movies[movies.movieId == id]['features'].values[0]
FeatureOf(mv, ft, id) ==
    ft[CHOOSE i \in DOMAIN mv :
          /\ mv[i].movieId = id
          /\ \A j \in 1..(i - 1) : mv[j].movieId # id]

\* Mutant of UserRows: the training rows are not filtered by user.
UserRowsAll(train, userId) == train

\* ratings_train[ratings_train.userId == userId]
UserRows(train, userId) == SelectSeq(train, LAMBDA r : r.userId = userId)

\* sum(list), a left fold from 0.
RECURSIVE FSum(_)
FSum(s) ==
    IF s = <<>> THEN FZero
    ELSE FAdd(FSum(SubSeq(s, 1, Len(s) - 1)), s[Len(s)])

\* arr: the similarity of every movie the user rated to the target movie,
\* appended row by row (lines 192-195).
RECURSIVE Similarities(_, _, _, _)
Similarities(mv, ft, users, movieId) ==
    IF users = <<>> THEN <<>>
    ELSE Append(Similarities(mv, ft, SubSeq(users, 1, Len(users) - 1), movieId),
                cosine_sim(FeatureOf(mv, ft, users[Len(users)].movieId),
                           FeatureOf(mv, ft, movieId)))

\* cosine_arr = [a * b for a, b in zip(rating_train, arr)]
RECURSIVE CosineArr(_, _)
CosineArr(users, arr) ==
    IF users = <<>> THEN <<>>
    ELSE Append(CosineArr(SubSeq(users, 1, Len(users) - 1),
                          SubSeq(arr, 1, Len(arr) - 1)),
                FMul(FromQ(users[Len(users)].rating), arr[Len(arr)]))

\* rating_train = users['rating']
RECURSIVE RatingColumn(_)
RatingColumn(users) ==
    IF users = <<>> THEN <<>>
    ELSE Append(RatingColumn(SubSeq(users, 1, Len(users) - 1)),
                FromQ(users[Len(users)].rating))

\* Mutant of TakesWeighted: Scosine >= 0.0.
TakesWeightedOrZero(Scosine) == ~Scosine.nan /\ FSign(Scosine) >= 0

\* if (Scosine > 0.0)
TakesWeighted(Scosine) == FPositive(Scosine)

\* Mutant of WeightedAverage: divides by the number of similarities.
WeightedAverageByCount(cosine_arr, arr) ==
    FDiv(FSum(cosine_arr), FromInt(Len(arr)))

\* pre = sum(cosine_arr) / sum(arr)
WeightedAverage(cosine_arr, arr) == FDiv(FSum(cosine_arr), FSum(arr))

\* Mutant of MeanFault: the mean of no ratings raises nothing.
MeanFaultNever(users) == None

\* The exception of sum(rating_train) / len(rating_train), or None.
MeanFault(users) == IF Len(users) = 0 THEN "ZeroDivisionError" ELSE None

\* Mutant of UserMean: the sum is not divided by the count.
UserMeanSum(users) == FSum(RatingColumn(users))

\* pre = sum(rating_train) / len(rating_train), for a user with ratings.
UserMean(users) == FDiv(FSum(RatingColumn(users)), FromInt(Len(users)))

\* One pass of the loop of lines 186-203: the prediction for one test row,
\* or the exception that ends the call.
PredictRow(mv, ft, train, row) ==
    LET users == UserRows(train, row.userId)
        arr == Similarities(mv, ft, users, row.movieId)
        cosine_arr == CosineArr(users, arr)
        Scosine == FSum(cosine_arr)
    IN  IF TakesWeighted(Scosine)
        THEN [fault |-> None, pre |-> WeightedAverage(cosine_arr, arr)]
        ELSE IF MeanFault(users) # None
        THEN [fault |-> MeanFault(users), pre |-> FNaN]
        ELSE [fault |-> None, pre |-> UserMean(users)]

\* The loop over ratings_test: one result per test row, appended in order.
RECURSIVE make_predictions(_, _, _, _)
make_predictions(mv, ft, train, test) ==
    IF test = <<>> THEN <<>>
    ELSE Append(make_predictions(mv, ft, train, SubSeq(test, 1, Len(test) - 1)),
                PredictRow(mv, ft, train, test[Len(test)]))

----------------------------------------------------------------------------
(* Inputs *)

Horror == <<"H","o","r","r","o","r">>
Romance == <<"R","o","m","a","n","c","e">>
SciFi == <<"S","c","i","-","F","i">>
Bar == <<"|">>

\* The genre strings catalogs are drawn from: the three of the documented
\* scenario, an empty genre string, and one whose tokens repeat and occur
\* inside a longer token of another string ("sci" and "fi" in "sci-fi").
GenrePool ==
    { Horror \o Bar \o Romance,
      SciFi,
      Horror,
      <<>>,
      <<"S","c","i">> \o Bar \o <<"F","i">> \o Bar \o <<"S","c","i">> }

\* The movies DataFrame with the given genre strings, movieId 1, 2, ...
Catalog(gs) == [i \in DOMAIN gs |-> [movieId |-> i, genres |-> gs[i]]]

\* Every catalog of 1 .. MaxMovies movies over the pool.
Catalogs ==
    UNION {{Catalog(gs) : gs \in [1..n -> GenrePool]} : n \in 1..MaxMovies}

\* The catalog of the documented end-to-end scenario.
ScenarioCatalog == Catalog(<<Horror \o Bar \o Romance, SciFi, Horror>>)

\* The catalogs make_predictions is run on: the scenario (similarities 0,
\* 2 / sqrt(29) and 1), and one in which "horror" is in every movie, so
\* that movie 1 is the zero vector.
PredCatalogs ==
    { ScenarioCatalog,
      Catalog(<<Horror, Horror \o Bar \o Romance>>) }

Users == {7, 9}

\* The rating values of training rows, 2.0 and 4.0.
RatingValues == {<<2, 1>>, <<4, 1>>}

\* The rating of a held-out row; make_predictions never reads it.
HeldOutRating == <<3, 1>>

TrainRows(N) ==
    [userId : Users, movieId : 1..N, rating : RatingValues]

TestRows(N) ==
    [userId : Users, movieId : 1..N, rating : {HeldOutRating}]

\* The pairs <<ratings_train, ratings_test>> of at most MaxRatings rows in
\* all, over a catalog of N movies.
RatingInputs(N) ==
    UNION {[1..a -> TrainRows(N)] \X [1..b -> TestRows(N)] :
              <<a, b>> \in {ab \in (0..MaxRatings) \X (0..MaxRatings) :
                                ab[1] + ab[2] <= MaxRatings}}

----------------------------------------------------------------------------
(* Actions *)

\* movies = tokenize(movies)
Tokenize ==
    /\ pc = "tokenize"
    /\ tokens' = tokenize(movies)
    /\ pc' = "featurize"
    /\ UNCHANGED <<movies, vocab, dfdict, features, ratings, ratings_train,
                   ratings_test, predictions, sim, fault>>

\* movies, vocab = featurize(movies).  When a movie raises, the column
\* 'features' is never assigned; vocab and dfdict hold what the call had
\* built when it stopped.
Featurize ==
    /\ pc = "featurize"
    /\ LET N == Len(movies)
           vc == BuildVocab(tokens)
           df == BuildDf(movies, vc)
           raised == FeaturizeFault(tokens, df)
       IN  /\ vocab' = vc
           /\ dfdict' = df
           /\ fault' = raised
           /\ IF raised # None
              THEN pc' = "fault" /\ features' = features
              ELSE /\ pc' = "ready"
                   /\ features' = [i \in DOMAIN tokens |->
                                      FeatureRow(tokens[i], vc, df, N)]
    /\ UNCHANGED <<movies, tokens, ratings, ratings_train, ratings_test,
                   predictions, sim>>

\* cosine_sim(a, b) on the feature vectors of two movies of the catalog.
CosineSim ==
    /\ pc \in {"ready", "compared"}
    /\ \E i \in DOMAIN movies, j \in DOMAIN movies :
          sim' = [a |-> i, b |-> j,
                  value |-> cosine_sim(features[i], features[j])]
    /\ pc' = "compared"
    /\ UNCHANGED <<movies, tokens, vocab, dfdict, features, ratings,
                   ratings_train, ratings_test, predictions, fault>>

\* ratings_train, ratings_test = train_test_split(ratings), for a ratings
\* log of n rows; a row is written as its index label 0 .. n - 1 (the split
\* reads no column).
TrainTestSplit ==
    /\ pc = "split"
    /\ \E n \in 0..MaxRows :
          LET rt == [i \in 1..n |-> i - 1]
              test == TestPositions(n)
              train == SortedPositions(TrainPositions(n), n)
          IN  /\ ratings' = rt
              /\ ratings_train' = ILoc(rt, train)
              /\ ratings_test' = ILoc(rt, SortedPositions(test, n))
    /\ pc' = "done"
    /\ UNCHANGED <<movies, tokens, vocab, dfdict, features, predictions,
                   sim, fault>>

\* predictions = make_predictions(movies, ratings_train, ratings_test), its
\* two ratings arguments drawn from RatingInputs.  An exception in any pass
\* of the loop ends the call: no array is returned.
MakePredictions ==
    /\ pc = "ready"
    /\ \E inp \in RatingInputs(Len(movies)) :
          LET res == make_predictions(movies, features, inp[1], inp[2])
              bad == {i \in DOMAIN res : res[i].fault # None}
          IN  /\ ratings_train' = inp[1]
              /\ ratings_test' = inp[2]
              /\ IF bad # {}
                 THEN /\ pc' = "fault"
                      /\ fault' = res[CHOOSE i \in bad : \A j \in bad : i <= j].fault
                      /\ predictions' = predictions
                 ELSE /\ pc' = "done"
                      /\ fault' = fault
                      /\ predictions' = [i \in DOMAIN res |-> res[i].pre]
    /\ UNCHANGED <<movies, tokens, vocab, dfdict, features, ratings, sim>>

----------------------------------------------------------------------------
(* Specifications *)

Unset ==
    /\ tokens = None /\ vocab = None /\ dfdict = None /\ features = None
    /\ ratings = None /\ ratings_train = None /\ ratings_test = None
    /\ predictions = None /\ sim = None /\ fault = None

\* tokenize, featurize and make_predictions on the prediction catalogs.
Init == pc = "tokenize" /\ movies \in PredCatalogs /\ Unset
Next == Tokenize \/ Featurize \/ MakePredictions
Spec == Init /\ [][Next]_vars

\* tokenize, featurize and cosine_sim on every catalog over the pool.
InitFeat == pc = "tokenize" /\ movies \in Catalogs /\ Unset
NextFeat == Tokenize \/ Featurize \/ CosineSim
SpecFeat == InitFeat /\ [][NextFeat]_vars

\* train_test_split on ratings logs of 0 .. MaxRows rows.
InitSplit == pc = "split" /\ movies = None /\ Unset
NextSplit == TrainTestSplit
SpecSplit == InitSplit /\ [][NextSplit]_vars

----------------------------------------------------------------------------
(* Properties *)

\* The negation of a real.
RNeg(x) == [m \in DOMAIN x |-> QNeg(x[m])]

\* x == y as real numbers (False when either is NaN).
FEq(x, y) == ~x.nan /\ ~y.nan /\ RMul(x.num, y.den) = RMul(y.num, x.den)

\* x <= y as real numbers (False when either is NaN).
FLeq(x, y) ==
    /\ ~x.nan /\ ~y.nan
    /\ RSign(RAdd(RMul(y.num, x.den), RNeg(RMul(x.num, y.den))))
         * RSign(x.den) * RSign(y.den) >= 0

\* The distinct tokens of every movie of the catalog.
AllTokens == UNION {Range(tokens[i]) : i \in DOMAIN tokens}

\* The columns at which a feature vector holds a non-zero weight.
NonZero(v) == {c \in 0..(v.shape - 1) : FSign(Get(v, c)) # 0}

\* The positions of the training rows of a user.
RowsOf(userId) ==
    {j \in DOMAIN ratings_train : ratings_train[j].userId = userId}

\* The similarity of the movie of training row j to a target movie.
SimTo(j, movieId) ==
    cosine_sim(FeatureOf(movies, features, ratings_train[j].movieId),
               FeatureOf(movies, features, movieId))

\* The sum of f[j] over the positions j in J.
RECURSIVE FSumOver(_, _)
FSumOver(f, J) ==
    IF J = {} THEN FZero
    ELSE LET j == CHOOSE j \in J : TRUE
         IN  FAdd(f[j], FSumOver(f, J \ {j}))

\* S, W and the mean of the training ratings of the user of test row i.
SOf(i) ==
    LET row == ratings_test[i]
        J == RowsOf(row.userId)
    IN  FSumOver([j \in J |-> FMul(SimTo(j, row.movieId),
                                   FromQ(ratings_train[j].rating))], J)

WOf(i) ==
    LET row == ratings_test[i]
        J == RowsOf(row.userId)
    IN  FSumOver([j \in J |-> SimTo(j, row.movieId)], J)

MeanOf(i) ==
    LET J == RowsOf(ratings_test[i].userId)
    IN  FDiv(FSumOver([j \in J |-> FromQ(ratings_train[j].rating)], J),
             FromInt(Cardinality(J)))

\* Two floats are the same value.
SameFloat(x, y) == (x.nan /\ y.nan) \/ FEq(x, y)

C3_NonZeroAreTokens ==
    pc \in {"ready", "compared"} =>
        \A i \in DOMAIN movies :
            NonZero(features[i]) = {vocab[t] : t \in Range(tokens[i])}

\* A token of movie i that some movie's lowercased genre string lacks.
RareTokens(i) ==
    {t \in Range(tokens[i]) :
        \E j \in DOMAIN movies : ~Contains(Lower(movies[j].genres), t)}

\* C3 amended: after featurize, the non-zero columns of every movie's
\* feature vector are exactly the vocabulary indices of those of its
\* distinct tokens that are not contained in every movie's lowercased genre
\* string; no column outside its tokens is non-zero.
C3_NonZeroAreRareTokens ==
    pc \in {"ready", "compared"} =>
        \A i \in DOMAIN movies :
            NonZero(features[i]) = {vocab[t] : t \in RareTokens(i)}

C3_Witness ==
    /\ pc = "ready"
    /\ \E i \in DOMAIN movies :
          /\ RareTokens(i) # {}
          /\ RareTokens(i) # Range(tokens[i])
          /\ NonZero(features[i]) # {}

\* C4: the vocabulary featurize returns maps the distinct tokens of all
\* movies one-to-one onto 0 .. k - 1 in ascending string order, index 0
\* being the least term; the catalog Horror|Romance, Sci-Fi gives
\* horror 0, romance 1, sci-fi 2.
C4_VocabSorted ==
    pc \in {"ready", "compared"} =>
        LET k == Cardinality(AllTokens)
        IN  /\ DOMAIN vocab = AllTokens
            /\ {vocab[t] : t \in AllTokens} = 0..(k - 1)
            /\ \A s \in AllTokens, t \in AllTokens :
                  StrLess(s, t) => vocab[s] < vocab[t]
            /\ \A t \in AllTokens :
                  vocab[t] = 0 => \A s \in AllTokens \ {t} : StrLess(t, s)
            /\ (movies = Catalog(<<Horror \o Bar \o Romance, SciFi>>) =>
                  /\ vocab[Lower(Horror)] = 0
                  /\ vocab[Lower(Romance)] = 1
                  /\ vocab[Lower(SciFi)] = 2
                  /\ k = 3)

C4_Witness ==
    /\ pc = "ready"
    /\ movies = Catalog(<<SciFi, Horror \o Bar \o Romance>>)
    /\ vocab[Lower(Horror)] = 0
    /\ vocab[Lower(SciFi)] = 2

\* The training ratings of user 9 in the documented scenario.
ScenarioTrain ==
    { [userId |-> 9, movieId |-> 1, rating |-> <<4, 1>>],
      [userId |-> 9, movieId |-> 2, rating |-> <<2, 1>>] }

\* make_predictions has returned on the inputs of the scenario.
ScenarioHolds ==
    /\ pc = "done"
    /\ movies = ScenarioCatalog
    /\ Len(ratings_train) = 2
    /\ Range(ratings_train) = ScenarioTrain
    /\ ratings_test = <<[userId |-> 9, movieId |-> 3, rating |-> HeldOutRating]>>

\* C5: with the catalog 1 = Horror|Romance, 2 = Sci-Fi, 3 = Horror run
\* through tokenize and featurize and user 9's training ratings movie 1 =
\* 4.0 and movie 2 = 2.0, the prediction for (user 9, movie 3) is 4.0, the
\* similarity of movie 1 to movie 3 is positive and that of movie 2 is 0.
C5_Scenario ==
    ScenarioHolds =>
        /\ Len(predictions) = 1
        /\ FEq(predictions[1], FromInt(4))
        /\ FPositive(cosine_sim(features[1], features[3]))
        /\ FEq(cosine_sim(features[2], features[3]), FZero)
        /\ FPositive(SOf(1))

C5_Witness ==
    /\ ScenarioHolds
    /\ ratings_train[1].movieId = 1

\* The user of test row i has one training rating, of no positive similarity.
OneRatingNoSignal(i) ==
    LET J == RowsOf(ratings_test[i].userId)
    IN  /\ Cardinality(J) = 1
        /\ \A j \in J : ~FPositive(SimTo(j, ratings_test[i].movieId))

\* C6: a test row whose user has exactly one training rating r, for a
\* movie whose similarity to the target movie is not positive, is predicted
\* exactly r.
C6_MeanOfOne ==
    pc = "done" =>
        \A i \in DOMAIN ratings_test :
            OneRatingNoSignal(i) =>
                \A j \in RowsOf(ratings_test[i].userId) :
                    FEq(predictions[i], FromQ(ratings_train[j].rating))

C6_Witness ==
    /\ pc = "done"
    /\ \E i \in DOMAIN ratings_test :
          /\ OneRatingNoSignal(i)
          /\ \A j \in RowsOf(ratings_test[i].userId) :
                ~SimTo(j, ratings_test[i].movieId).nan

C8_NoHistoryFaults ==
    (/\ pc \in {"done", "fault"}
     /\ \E i \in DOMAIN ratings_test : RowsOf(ratings_test[i].userId) = {})
    => /\ pc = "fault"
       /\ fault = "ZeroDivisionError"
       /\ predictions = None

C8_Witness ==
    /\ pc = "fault"
    /\ Len(ratings_test) = 2
    /\ RowsOf(ratings_test[1].userId) # {}
    /\ RowsOf(ratings_test[2].userId) = {}
    /\ predictions = None

\* C9: every term of the vocabulary has document frequency at least 1, so
\* featurize never divides N by zero.
C9_DocFreqPositive ==
    pc \in {"ready", "compared", "fault"} =>
        /\ DOMAIN dfdict = DOMAIN vocab
        /\ \A t \in DOMAIN dfdict : dfdict[t] >= 1
        /\ fault # "ZeroDivisionError"

\* A term counted in more movies than hold it as a token: the count is by
\* substring.
C9_Witness ==
    /\ pc = "ready"
    /\ \E t \in DOMAIN dfdict :
          dfdict[t] > Cardinality({i \in DOMAIN tokens : t \in Range(tokens[i])})

\* The least and the greatest training rating of the user of test row i.
MinRating(i) ==
    LET R == {ratings_train[j].rating : j \in RowsOf(ratings_test[i].userId)}
    IN  CHOOSE r \in R : \A q \in R : ~QLess(q, r)

MaxRating(i) ==
    LET R == {ratings_train[j].rating : j \in RowsOf(ratings_test[i].userId)}
    IN  CHOOSE r \in R : \A q \in R : ~QLess(r, q)

\* The user of test row i has training ratings and no similarity is NaN.
Defined(i) ==
    /\ RowsOf(ratings_test[i].userId) # {}
    /\ \A j \in RowsOf(ratings_test[i].userId) :
          ~SimTo(j, ratings_test[i].movieId).nan

====
